---- MODULE Spec2Model ----
(***************************************************************************)
(* A model of asg-spot-manager.py: the reconciliation run of               *)
(* ASG_spot_manager over the tagged autoscaling groups, the per-group      *)
(* decision of manage_group, and the launch-configuration migration of     *)
(* switch_to_on_demand / switch_to_spot, one action per provider call;     *)
(* and, as specifications of their own, the naming of the clones, the      *)
(* on-demand price lookup, and load_data's repair of the pricing feed.     *)
(*                                                                         *)
(* Launch-configuration names are sequences of characters so that          *)
(* str.endswith('*') and str.strip('*') are computed, not assumed.         *)
(* Prices are integers (the feed's decimal strings on a fixed grid);       *)
(* times are integer seconds.                                              *)
(***************************************************************************)
EXTENDS Integers, Sequences, FiniteSets, TLC

\* ------------------------------------------------------------------ bounds

\* The clock runs from 0 to MaxTime.
MaxTime == 3
\* The provider lists at most MaxRequests spot instance requests in the
\* decision specification.
MaxRequests == 2
\* Launch-configuration names of the naming specification have at most
\* MaxNameLen characters.
MaxNameLen == 3
\* The naming specification follows a name through MaxRenames migrations.
MaxRenames == 2

\* ------------------------------------------------- names: str operations

Star == "*"
Chars == {"w", "v", Star}

\* str.endswith('*')
EndsWithStar(s) == Len(s) > 0 /\ s[Len(s)] = Star

RECURSIVE LStrip(_)
\* the leading half of str.strip('*'): every leading '*' is removed
LStrip(s) ==
    IF Len(s) > 0 /\ Head(s) = Star THEN LStrip(Tail(s)) ELSE s

RECURSIVE RStrip(_)
\* the trailing half of str.strip('*'): every trailing '*' is removed
RStrip(s) ==
    IF Len(s) > 0 /\ s[Len(s)] = Star
    THEN RStrip(SubSeq(s, 1, Len(s) - 1))
    ELSE s

\* str.strip('*')
Strip(s) == RStrip(LStrip(s))

\* The clone's name, lines 201-204 and 265-268.
NewLcName(old_lc_name) ==
    IF EndsWithStar(old_lc_name)
    THEN Strip(old_lc_name)
    ELSE old_lc_name \o <<Star>>

\* ------------------------------------------------ the on-demand price feed

\* self.region, line 27: the region the manager is configured with.
ManagerRegion == "us-west-2"

InstanceTypes == {"m1.small", "m1.large"}

\* A decoded price string of the feed. A positive number is a price; 0 stands
\* for the empty string '', the one price string that is falsy in Python.
EmptyPrice == 0

Size(size, usd) == [size |-> size, USD |-> usd]
Family(sizes) == [sizes |-> sizes]
Region(region, instanceTypes) == [region |-> region, instanceTypes |-> instanceTypes]

EastRegion == Region("us-east-1", <<Family(<<Size("m1.small", 5)>>)>>)

\* Decoded feeds (response['config']['regions']) the endpoint may serve.
Feeds ==
    [ ok |->
        <<EastRegion,
          Region(ManagerRegion,
                 <<Family(<<Size("m1.small", 2), Size("m1.large", 3)>>)>>)>>,
      dear |->
        <<Region(ManagerRegion,
                 <<Family(<<Size("m1.large", 4), Size("m1.small", 3)>>)>>)>>,
      later_family |->
        <<Region(ManagerRegion,
                 <<Family(<<Size("c1.medium", 4)>>),
                   Family(<<Size("m1.small", 2), Size("m1.large", 3)>>)>>)>>,
      no_region |-> <<EastRegion>>,
      no_families |-> <<EastRegion, Region(ManagerRegion, <<>>)>>,
      no_type |->
        <<Region(ManagerRegion, <<Family(<<Size("c1.medium", 4)>>)>>)>>,
      empty_price |->
        <<Region(ManagerRegion,
                 <<Family(<<Size("m1.small", EmptyPrice),
                            Size("m1.large", EmptyPrice)>>)>>)>> ]

FeedNames == DOMAIN Feeds

\* The feeds the endpoint serves during the runs, one for each outcome of
\* the lookup (a price, False, UnboundLocalError): the price of an instance
\* type does not change between two fetches.
RunFeeds == {"ok", "no_families", "no_region"}

\* A Python local that has not been assigned yet.
Unbound == [bound |-> FALSE, value |-> 0]
Bound(v) == [bound |-> TRUE, value |-> v]

\* What a call gives its caller: a value, the sentinel False, or an exception.
Returned(v) == [kind |-> "value", value |-> v]
ReturnedFalse == [kind |-> "False", value |-> 0]
Raised(exc) == [kind |-> exc, value |-> 0]

RECURSIVE FindRegion(_, _, _)
\* Lines 320-323: types is bound to the instanceTypes of the first region
\* whose name matches; it stays unbound when none does.
FindRegion(regions, i, ASG_region) ==
    IF i > Len(regions) THEN Unbound
    ELSE IF regions[i].region = ASG_region THEN Bound(regions[i].instanceTypes)
    ELSE FindRegion(regions, i + 1, ASG_region)

RECURSIVE FindSize(_, _, _, _)
\* Lines 330-333: od_price is rebound to the price of the first size entry
\* of this family that matches; it keeps its binding when none does.
FindSize(sizes, j, instance_type, od_price) ==
    IF j > Len(sizes) THEN od_price
    ELSE IF sizes[j].size = instance_type THEN Bound(sizes[j].USD)
    ELSE FindSize(sizes, j + 1, instance_type, od_price)

RECURSIVE ScanTypes(_, _, _, _)
\* Lines 328-338: the loop over the families, with the test of od_price
\* after each family, and the final return.
ScanTypes(types, i, instance_type, od_price) ==
    IF i > Len(types)
    THEN IF od_price.bound THEN Returned(od_price.value)
                           ELSE Raised("UnboundLocalError")
    ELSE LET found == FindSize(types[i].sizes, 1, instance_type, od_price)
         IN  IF ~found.bound THEN Raised("UnboundLocalError")
             ELSE IF found.value = EmptyPrice THEN ReturnedFalse
             ELSE ScanTypes(types, i + 1, instance_type, found)

\* Lines 317-338.
GetOdPriceFromResponse(response, ASG_region, instance_type) ==
    LET types == FindRegion(response, 1, ASG_region)
    IN  IF ~types.bound THEN Raised("UnboundLocalError")
        ELSE IF Len(types.value) = 0 THEN ReturnedFalse
        ELSE ScanTypes(types.value, 1, instance_type, Unbound)

\* Lines 310-315, with the feed that load_data decoded.
GetLcOnDemandPrice(lc_dict, feed) ==
    GetOdPriceFromResponse(Feeds[feed], ManagerRegion, lc_dict.InstanceType)

\* float(od_price), line 109: float(False) is 0.0.
Float(od_price) == od_price.value

\* ------------------------------------------------------ the spot market

Zones == <<"us-west-2a", "us-west-2b">>

\* What describe_spot_price_history gives for one zone: a price, or the
\* provider's ClientError (0).
ZoneError == 0
SpotQuotes == {ZoneError, 1, 2, 3}

RECURSIVE GetZoneSpotPrices(_, _, _)
\* Lines 417-431: the quotes of the zones in order, a zone whose call raised
\* ClientError left out.
GetZoneSpotPrices(zones, i, quote) ==
    IF i > Len(zones) THEN <<>>
    ELSE IF quote[zones[i]] = ZoneError
         THEN GetZoneSpotPrices(zones, i + 1, quote)
         ELSE <<quote[zones[i]]>> \o GetZoneSpotPrices(zones, i + 1, quote)

RECURSIVE MinOf(_)
\* min(spot_prices), line 105, of a list that is not empty.
MinOf(prices) ==
    IF Len(prices) = 1 THEN prices[1]
    ELSE LET m == MinOf(Tail(prices))
         IN  IF prices[1] <= m THEN prices[1] ELSE m

\* The comparison of line 109.
SpotGreater(spot_zone_min, od_price) == spot_zone_min > Float(od_price)

\* A plausible other spelling of the cooldown test of line 81.
CooldownElapsedInclusive(seconds_since_update, lc_switching_delay) ==
    seconds_since_update >= lc_switching_delay

\* The cooldown test of line 81.
CooldownElapsed(seconds_since_update, lc_switching_delay) ==
    seconds_since_update > lc_switching_delay

\* ------------------------------------------------- spot instance requests

\* self.denial_statuses, lines 35-40.
denial_statuses ==
    { "capacity-not-available",
      "capacity-oversubscribed",
      "instance-terminated-by-price",
      "instance-terminated-capacity-oversubscribed",
      "instance-terminated-no-capacity",
      "price-too-low" }

Groups == {"asg1", "asg2"}

\* The tags a request may carry: none, the back-reference to a group, or
\* another key with the group's name as its value.
Tag(key, value) == [Key |-> key, Value |-> value]
RequestTags ==
    { <<>>,
      <<Tag("launched-for-asg", "asg1")>>,
      <<Tag("Name", "asg1"), Tag("launched-for-asg", "asg2")>> }

\* The status codes the provider writes in this model.
RequestCodes == {"price-too-low", "fulfilled"}

Request(tags, code, t) ==
    [ Tags |-> tags, Status |-> [Code |-> code, UpdateTime |-> t] ]

RECURSIVE HasTag(_, _, _, _)
\* Lines 153-158: some tag has this key and this value.
HasTag(tags, i, key, value) ==
    IF i > Len(tags) THEN FALSE
    ELSE IF tags[i].Key = key /\ tags[i].Value = value THEN TRUE
    ELSE HasTag(tags, i + 1, key, value)

RECURSIVE AsgRequests(_, _, _)
\* Lines 149-158: the requests tagged launched-for-asg with the group's name.
AsgRequests(reqs, i, asg_name) ==
    IF i > Len(reqs) THEN <<>>
    ELSE IF Len(reqs[i].Tags) > 0
            /\ HasTag(reqs[i].Tags, 1, "launched-for-asg", asg_name)
         THEN <<reqs[i]>> \o AsgRequests(reqs, i + 1, asg_name)
         ELSE AsgRequests(reqs, i + 1, asg_name)

\* A plausible other spelling of the test of line 170: the window's edge
\* counted in.
RecentDenialInclusive(request, t, lookback) ==
    (t - request.Status.UpdateTime <= lookback)
        /\ (request.Status.Code \in denial_statuses)

\* The test of line 170.
RecentDenial(request, t, lookback) ==
    (t - request.Status.UpdateTime < lookback)
        /\ (request.Status.Code \in denial_statuses)

RECURSIVE AnyRecentDenial(_, _, _, _)
\* Lines 163-173: the loop over the group's requests.
AnyRecentDenial(asg_requests, i, t, lookback) ==
    IF i > Len(asg_requests) THEN FALSE
    ELSE IF RecentDenial(asg_requests[i], t, lookback) THEN TRUE
    ELSE AnyRecentDenial(asg_requests, i + 1, t, lookback)

\* Lines 141-173.
CheckSpotRequests(asg_name, reqs, t, lookback) ==
    LET asg_requests == AsgRequests(reqs, 1, asg_name)
    IN  IF Len(asg_requests) = 0 THEN FALSE
        ELSE AnyRecentDenial(asg_requests, 1, t, lookback)

RECURSIVE FirstDenial(_, _, _, _, _)
\* The position, in the provider's list, of the request on which the loop of
\* lines 163-171 returns True; 0 when it returns False.
FirstDenial(reqs, i, asg_name, t, lookback) ==
    IF i > Len(reqs) THEN 0
    ELSE IF /\ Len(reqs[i].Tags) > 0
            /\ HasTag(reqs[i].Tags, 1, "launched-for-asg", asg_name)
            /\ RecentDenial(reqs[i], t, lookback)
         THEN i
    ELSE FirstDenial(reqs, i + 1, asg_name, t, lookback)

\* ------------------------------------------------ launch configurations

\* A launch configuration is a dict: a function from the keys it has to
\* their values. SpotPrice is a key of spot configurations only.
Put(d, k, v) == [x \in DOMAIN d \cup {k} |-> IF x = k THEN v ELSE d[x]]
Pop(d, k) == [x \in DOMAIN d \ {k} |-> d[x]]

\* base64 of the startup payloads of this model; '' encodes ''.
B64Encode(text) ==
    CASE text = "" -> ""
      [] text = "#!boot" -> "IyFib290"
      [] OTHER -> "P2Vycm9y"

\* base64.decodebytes(...).decode(), lines 209 and 273.
B64Decode(b64) ==
    CASE b64 = "" -> ""
      [] b64 = "IyFib290" -> "#!boot"
      [] OTHER -> "?error"

\* bool(v) of the value of key k, for the filter of lines 196 and 260: an
\* empty string and False are falsy, a number other than 0 and a dict that
\* is not empty are truthy.
Truthy(k, v) ==
    CASE k = "UserData" -> v # ""
      [] k = "EbsOptimized" -> v
      [] OTHER -> TRUE

\* {k: v for k, v in config.items() if v}, lines 196 and 260.
RemoveEmpty(config) ==
    [k \in {x \in DOMAIN config : Truthy(x, config[x])} |-> config[k]]

Arn(name) == <<"arn:aws:autoscaling", name>>

\* What describe_launch_configurations lists for a configuration created
\* with these arguments at time t: the arguments, the payload encoded, the
\* provider's ARN and creation time, and the defaults of the keys left out.
Described(args, t) ==
    LET defaults ==
            [ UserData |-> "", EbsOptimized |-> FALSE ]
        given == [k \in DOMAIN args \cup DOMAIN defaults |->
                    IF k \in DOMAIN args THEN args[k] ELSE defaults[k]]
        encoded == [given EXCEPT !["UserData"] = B64Encode(@)]
    IN  Put(Put(encoded, "LaunchConfigurationARN",
                Arn(args["LaunchConfigurationName"])),
            "CreatedTime", t)

\* A plausible slip in lines 212-214: SpotPrice is not popped.
OnDemandCloneKeepsBid(config) ==
    LET kept == RemoveEmpty(config)
        old_lc_name == kept["LaunchConfigurationName"]
        renamed == [kept EXCEPT !["LaunchConfigurationName"] =
                        NewLcName(old_lc_name)]
        decoded_data == [renamed EXCEPT !["UserData"] = B64Decode(@)]
    IN  Pop(Pop(decoded_data, "LaunchConfigurationARN"), "CreatedTime")

\* Lines 196-214: the arguments of create_launch_configuration in
\* switch_to_on_demand, for a config that has a UserData after the filter.
OnDemandClone(config) ==
    LET kept == RemoveEmpty(config)
        old_lc_name == kept["LaunchConfigurationName"]
        renamed == [kept EXCEPT !["LaunchConfigurationName"] =
                        NewLcName(old_lc_name)]
        decoded == [renamed EXCEPT !["UserData"] = B64Decode(@)]
    IN  Pop(Pop(Pop(decoded, "LaunchConfigurationARN"), "CreatedTime"),
            "SpotPrice")

\* The spot clone with a bid one step under the on-demand price.
SpotCloneUnderbid(config, od_price) ==
    LET kept == RemoveEmpty(config)
        old_lc_name == kept["LaunchConfigurationName"]
        renamed == [kept EXCEPT !["LaunchConfigurationName"] =
                        NewLcName(old_lc_name)]
        decoded == [renamed EXCEPT !["UserData"] = B64Decode(@)]
        popped == Pop(Pop(decoded, "LaunchConfigurationARN"), "CreatedTime")
    IN  Put(popped, "SpotPrice", od_price - 1)

\* Lines 260-279: the arguments of create_launch_configuration in
\* switch_to_spot, for a config that has a UserData after the filter.
SpotClone(config, od_price) ==
    LET kept == RemoveEmpty(config)
        old_lc_name == kept["LaunchConfigurationName"]
        renamed == [kept EXCEPT !["LaunchConfigurationName"] =
                        NewLcName(old_lc_name)]
        decoded == [renamed EXCEPT !["UserData"] = B64Decode(@)]
        popped == Pop(Pop(decoded, "LaunchConfigurationARN"), "CreatedTime")
    IN  Put(popped, "SpotPrice", od_price)

\* The launch configurations the provider holds before the first run: the
\* payload, monitoring flag, EBS flag and instance type of each.
Profiles ==
    { [UserData |-> "IyFib290", Enabled |-> TRUE, EbsOptimized |-> TRUE,
       InstanceType |-> "m1.small"],
      [UserData |-> "IyFib290", Enabled |-> FALSE, EbsOptimized |-> FALSE,
       InstanceType |-> "m1.large"],
      [UserData |-> "", Enabled |-> TRUE, EbsOptimized |-> FALSE,
       InstanceType |-> "m1.small"] }

InitialConfig(name, profile, spot) ==
    LET base ==
            [ LaunchConfigurationName |-> name,
              LaunchConfigurationARN |-> Arn(name),
              InstanceType |-> profile.InstanceType,
              UserData |-> profile.UserData,
              InstanceMonitoring |-> [Enabled |-> profile.Enabled],
              EbsOptimized |-> profile.EbsOptimized,
              CreatedTime |-> 0 ]
    IN  IF spot THEN Put(base, "SpotPrice", 2) ELSE base


\* ------------------------------------------------------------ the state

VARIABLES
    now,                \* the wall clock, seconds
    lookback,           \* self.lookback, line 28
    lc_switching_delay, \* self.lc_switching_delay, line 29
    launch_configs,     \* provider: name -> launch configuration
    groups,             \* provider: group name -> its autoscaling group
    spot_requests,      \* provider: the list of spot instance requests
    pc,                 \* where the run is
    target_asgs,        \* run: the list built at line 45
    idx,                \* run: the position of the loop of line 50
    run_end,            \* how the last run ended: none, running, done, crashed
    dec,                \* what manage_group last read and decided
    mig,                \* the locals of the migration under way, and its log
    orphans,            \* (group, name) of the old configurations whose deletion failed
    name0,              \* naming: the name before any migration
    name_now,           \* naming: the name now
    renames,            \* naming: migrations so far
    query,              \* pricing: the feed, region and instance type asked
    answer,             \* pricing: what get_od_price_from_response gave
    handled,            \* history: (group, request) that caused a repoint to on-demand
    run_log,            \* history: (group, provider operation) of this run, in order
    clones_left,        \* history: (group, name) of the clones of interrupted migrations
    last_mode,          \* history: group -> the mode of its last repoint
    request,            \* repair: the body the pricing endpoint served
    text,               \* repair: modified_request of load_data, lines 348-354
    stage,              \* repair: how far load_data has come
    fixup,              \* repair: the locals of fixup_js_literal_with_comments
    decoded             \* repair: what fixup_js_literal_with_comments gave

vars ==
    << now, lookback, lc_switching_delay, launch_configs, groups,
       spot_requests, pc, target_asgs, idx, run_end, dec, mig, orphans,
       name0, name_now, renames, query, answer,
       handled, run_log, clones_left, last_mode,
       request, text, stage, fixup, decoded >>

provider == << launch_configs, groups, spot_requests >>
settings == << lookback, lc_switching_delay >>
repair == << request, text, stage, fixup, decoded >>
\* The variables of the specifications of the pure functions.
naming == << name0, name_now, renames, query, answer, repair >>
history == << handled, run_log, clones_left, last_mode >>

\* self.asgTag, line 26.
asgTag == "enable-spot-manager"

NoDecision ==
    [ asg |-> "", is_spot |-> FALSE, spot_failure |-> FALSE,
      trigger |-> 0,
      spot_zone_min |-> 0, od_price |-> Raised(""), age |-> 0,
      action |-> "" ]

NoMigration ==
    [ asg |-> "", mode |-> "", trigger |-> 0, again |-> FALSE,
      prev_mode |-> "",
      old_lc_name |-> <<>>, new_lc_name |-> <<>>,
      config |-> <<>>, od_price |-> Raised(""), ops |-> <<>>,
      refetch |-> "",
      result |-> "" ]

\* Lines 175-184: whether get_launch_config finds the name, and what it
\* returns when it does (it returns False when it does not).
HasLaunchConfig(name) == name \in DOMAIN launch_configs
GetLaunchConfig(name) == launch_configs[name]

\* The order in which describe_auto_scaling_groups lists the groups.
GroupList == <<"asg1", "asg2">>

RECURSIVE TaggedGroups(_)
\* Lines 114-130: the groups that carry the tag with the value 'true', as
\* the provider describes them at that moment.
TaggedGroups(i) ==
    IF i > Len(GroupList) THEN <<>>
    ELSE (IF HasTag(groups[GroupList[i]].Tags, 1, asgTag, "true")
          THEN <<groups[GroupList[i]]>> ELSE <<>>)
         \o TaggedGroups(i + 1)

\* A plausible slip in lines 120-128: the groups are gone through once for
\* the key of the tag and once for its value.
BuildTaggedASGListTwice == TaggedGroups(1) \o TaggedGroups(1)

BuildTaggedASGList == TaggedGroups(1)

TypeOK ==
    /\ now \in 0..MaxTime
    /\ pc \in { "idle", "manage", "switch_to_on_demand", "switch_to_spot",
                "verify", "metrics", "update", "delete" }
    /\ run_end \in { "none", "running", "done", "crashed" }
    /\ Len(spot_requests) <= MaxRequests

\* ------------------------------------------------------------- Init

Group(name, lc_name, managed) ==
    [ AutoScalingGroupName |-> name,
      LaunchConfigurationName |-> lc_name,
      AvailabilityZones |-> Zones,
      Tags |-> <<Tag("Name", name), Tag(asgTag, managed)>> ]

PlainProfile ==
    [UserData |-> "IyFib290", Enabled |-> TRUE, EbsOptimized |-> TRUE,
     InstanceType |-> "m1.small"]

\* (lookback, lc_switching_delay): the window shorter than the delay, and
\* longer.
Settings == { <<1, 2>>, <<3, 1>> }

\* load_data is not followed: the decoded feed is one of Feeds.
NoRepair ==
    /\ request = <<>> /\ text = <<>> /\ stage = "" /\ fixup = <<>>
    /\ decoded = Raised("")

InitRun ==
    /\ now = 0
    /\ pc = "idle"
    /\ target_asgs = <<>>
    /\ idx = 0
    /\ run_end = "none"
    /\ dec = NoDecision
    /\ mig = NoMigration
    /\ orphans = {}
    /\ name0 = <<>> /\ name_now = <<>> /\ renames = 0
    /\ query = <<>> /\ answer = Raised("")
    /\ handled = {}
    /\ run_log = <<>>
    /\ clones_left = {}
    /\ last_mode = [g \in Groups |-> ""]
    /\ NoRepair

\* How the two groups of the fleet are set up before the first run: on two
\* configurations whose names do not meet, on one shared configuration, or
\* on the two names of one toggle.
FleetNames ==
    { [asg1 |-> <<"w">>, asg2 |-> <<"v", Star>>],
      [asg1 |-> <<"w">>, asg2 |-> <<"w">>],
      [asg1 |-> <<"w">>, asg2 |-> <<"w", Star>>] }

\* The spot instance requests the provider lists for the fleet: a denial
\* for each group, at time 0.
FleetRequests ==
    { <<Request(<<Tag("Name", "asg1"), Tag("launched-for-asg", "asg2")>>,
                "capacity-oversubscribed", 0),
        Request(<<Tag("launched-for-asg", "asg1")>>, "price-too-low", 0)>> }

\* The fleet: two managed groups, each on one existing launch configuration
\* created at time 0.
Init ==
    /\ \E s \in Settings : lookback = s[1] /\ lc_switching_delay = s[2]
    /\ \E lc_of \in FleetNames, profile \in Profiles,
          spot \in [Groups -> BOOLEAN] :
          /\ groups = [g \in Groups |-> Group(g, lc_of[g], "true")]
          /\ launch_configs =
                [n \in {lc_of[g] : g \in Groups} |->
                    IF n = lc_of["asg1"]
                    THEN InitialConfig(n, profile, spot["asg1"])
                    ELSE InitialConfig(n, PlainProfile, spot["asg2"])]
    /\ spot_requests \in FleetRequests
    /\ InitRun

RECURSIVE RequestLists(_)
\* The lists of at most n requests, all with a status of time 0.
RequestLists(n) ==
    IF n = 0 THEN {<<>>}
    ELSE RequestLists(n - 1) \cup
         { Append(l, Request(tags, code, 0)) :
             l \in {x \in RequestLists(n - 1) : Len(x) = n - 1},
             tags \in RequestTags, code \in RequestCodes }

\* One managed group beside a group without the tag, with any list of
\* requests.
InitDecide ==
    /\ \E s \in Settings : lookback = s[1] /\ lc_switching_delay = s[2]
    /\ \E profile \in Profiles, spot \in BOOLEAN :
          /\ groups = [g \in Groups |->
                IF g = "asg1" THEN Group(g, <<"w">>, "true")
                ELSE Group(g, <<"v", Star>>, "false")]
          /\ launch_configs =
                [n \in {<<"w">>, <<"v", Star>>} |->
                    IF n = <<"w">>
                    THEN InitialConfig(n, profile, spot)
                    ELSE InitialConfig(n, PlainProfile, FALSE)]
    /\ spot_requests \in RequestLists(MaxRequests)
    /\ InitRun

\* ------------------------------------------------------- the environment

\* Time passes between two invocations (a run is short against the unit of
\* the clock); the locals of the invocation that ended are gone.
Tick ==
    /\ pc = "idle"
    /\ now < MaxTime
    /\ now' = now + 1
    /\ target_asgs' = <<>>
    /\ idx' = 0
    /\ run_end' = "none"
    /\ dec' = NoDecision
    /\ mig' = NoMigration
    /\ run_log' = <<>>
    /\ UNCHANGED << settings, provider, pc, orphans, naming, handled,
                    clones_left, last_mode >>

\* ------------------------------------------------------------- the run

\* An exception leaves manage_group and run (no handler anywhere, lines
\* 44-52): the invocation ends where it is, idx staying at the group that
\* failed.
Abort ==
    /\ pc' = "idle"
    /\ run_end' = "crashed"
    /\ UNCHANGED << target_asgs, idx >>

\* manage_group returns: the loop of line 50 goes on, or run returns.
NextGroup ==
    /\ idx' = idx + 1
    /\ IF idx < Len(target_asgs)
       THEN pc' = "manage" /\ run_end' = run_end
       ELSE pc' = "idle" /\ run_end' = "done"
    /\ UNCHANGED target_asgs

\* Lines 44-49: the scheduled invocation starts a run.
StartRun ==
    /\ pc = "idle"
    /\ target_asgs' = BuildTaggedASGList
    /\ IF Len(BuildTaggedASGList) = 0
       THEN pc' = "idle" /\ idx' = 0 /\ run_end' = "done"
       ELSE pc' = "manage" /\ idx' = 1 /\ run_end' = "running"
    /\ dec' = NoDecision
    /\ mig' = NoMigration
    /\ run_log' = <<>>
    /\ UNCHANGED << now, settings, provider, orphans, naming, handled,
                    clones_left, last_mode >>

\* A plausible other reading of lines 136-139: the marker of the name says
\* whether the configuration is a spot one.
IsAsgCurrentlySpotByName(config) ==
    EndsWithStar(config["LaunchConfigurationName"])

\* Lines 136-139: the group is on spot when its launch configuration has the
\* key SpotPrice.
IsAsgCurrentlySpot(config) == "SpotPrice" \in DOMAIN config

\* The decision of lines 60-87 for a group whose launch configuration was
\* found: the action, with what was read to take it.
Decide(asg_dict, config, quote, feed) ==
    LET is_spot == IsAsgCurrentlySpot(config)
        base == [ NoDecision EXCEPT
                    !.asg = asg_dict.AutoScalingGroupName,
                    !.is_spot = is_spot ]
    IN  IF is_spot
        THEN LET spot_failure ==
                     CheckSpotRequests(asg_dict.AutoScalingGroupName,
                                       spot_requests, now, lookback)
             IN  [ base EXCEPT
                     !.spot_failure = spot_failure,
                     !.trigger =
                         FirstDenial(spot_requests, 1,
                                     asg_dict.AutoScalingGroupName,
                                     now, lookback),
                     !.action = IF spot_failure THEN "switch_to_on_demand"
                                                ELSE "none" ]
        ELSE LET spot_prices ==
                     GetZoneSpotPrices(asg_dict.AvailabilityZones, 1, quote)
                 od_price == GetLcOnDemandPrice(config, feed)
                 age == now - config["CreatedTime"]
             IN  IF Len(spot_prices) = 0
                 THEN [ base EXCEPT !.action = "ValueError" ]
                 ELSE IF od_price.kind \notin {"value", "False"}
                 THEN [ base EXCEPT
                          !.spot_zone_min = MinOf(spot_prices),
                          !.od_price = od_price,
                          !.action = od_price.kind ]
                 ELSE [ base EXCEPT
                          !.spot_zone_min = MinOf(spot_prices),
                          !.od_price = od_price,
                          !.age = age,
                          !.action =
                              IF SpotGreater(MinOf(spot_prices), od_price)
                              THEN "none"
                              ELSE IF CooldownElapsed(age, lc_switching_delay)
                              THEN "switch_to_spot"
                              ELSE "none" ]

\* The step manage_group takes on decision d.
Act(d) ==
    /\ dec' = d
    /\ CASE d.action = "none" -> mig' = mig /\ NextGroup
         [] d.action \in {"switch_to_on_demand", "switch_to_spot"} ->
              /\ mig' = [ NoMigration EXCEPT
                             !.asg = d.asg,
                             !.mode = d.action,
                             !.trigger = d.trigger,
                             !.again = <<d.asg, d.trigger>> \in handled,
                             !.prev_mode = last_mode[d.asg] ]
              /\ pc' = d.action
              /\ UNCHANGED << target_asgs, idx, run_end >>
         [] OTHER -> mig' = mig /\ Abort

NoQuote == [z \in {Zones[i] : i \in 1..Len(Zones)} |-> ZoneError]

\* Lines 54-87: manage_group classifies the group of this turn of the loop
\* and decides.
ManageGroup ==
    /\ pc = "manage"
    /\ LET asg_dict == target_asgs[idx]
           launch_config_name == asg_dict.LaunchConfigurationName
       IN  IF ~HasLaunchConfig(launch_config_name)
           THEN \* 'SpotPrice' in False, line 136
                Act([ NoDecision EXCEPT
                        !.asg = asg_dict.AutoScalingGroupName,
                        !.action = "TypeError" ])
           ELSE IF IsAsgCurrentlySpot(GetLaunchConfig(launch_config_name))
           THEN Act(Decide(asg_dict, GetLaunchConfig(launch_config_name),
                           NoQuote, ""))
           ELSE \E quote \in [{Zones[i] : i \in 1..Len(Zones)} -> SpotQuotes],
                   feed \in RunFeeds :
                   Act(Decide(asg_dict, GetLaunchConfig(launch_config_name),
                              quote, feed))
    /\ UNCHANGED << now, settings, provider, orphans, naming, history >>

\* ------------------------------------------------------- the migration

\* A plausible slip in lines 222-224: the clone is never taken as missing.
CloneMissingIgnored(found) == FALSE

\* Lines 222 and 287: "if not response", of the re-fetch of the clone.
CloneMissing(found) == ~found

\* The migration ends with an exception.
Fail(exc) ==
    /\ mig' = [ mig EXCEPT !.result = exc ]
    /\ Abort

\* create_launch_configuration(**config), lines 216 and 281. The provider
\* refuses an empty name and a name it holds already; otherwise it accepts
\* the call, and the configuration is there at the re-fetch or is not.
CreateLaunchConfiguration(old_lc_name, config, od_price) ==
    LET new_lc_name == config["LaunchConfigurationName"]
        started == [ mig EXCEPT
                       !.old_lc_name = old_lc_name,
                       !.new_lc_name = new_lc_name,
                       !.config = config,
                       !.od_price = od_price ]
    IN  IF Len(new_lc_name) = 0
        THEN /\ mig' = [ started EXCEPT !.result = "ParamValidationError" ]
             /\ Abort
             /\ UNCHANGED launch_configs
        ELSE IF new_lc_name \in DOMAIN launch_configs
        THEN /\ mig' = [ started EXCEPT !.result = "AlreadyExists" ]
             /\ Abort
             /\ UNCHANGED launch_configs
        ELSE /\ mig' = [ started EXCEPT
                           !.ops = <<"create_launch_configuration">> ]
             /\ \E visible \in BOOLEAN :
                   launch_configs' =
                       IF visible
                       THEN [ n \in DOMAIN launch_configs \cup {new_lc_name} |->
                                IF n = new_lc_name THEN Described(config, now)
                                ELSE launch_configs[n] ]
                       ELSE launch_configs
             /\ pc' = "verify"
             /\ UNCHANGED << target_asgs, idx, run_end >>

\* Lines 191-217: switch_to_on_demand up to the creation of the clone.
SwitchToOnDemand ==
    /\ pc = "switch_to_on_demand"
    /\ LET launch_config_name == target_asgs[idx].LaunchConfigurationName
       IN  IF ~HasLaunchConfig(launch_config_name)
           THEN Fail("AttributeError") /\ UNCHANGED launch_configs
           ELSE IF "UserData" \notin DOMAIN RemoveEmpty(GetLaunchConfig(launch_config_name))
           THEN Fail("KeyError") /\ UNCHANGED launch_configs
           ELSE CreateLaunchConfiguration(
                    launch_config_name,
                    OnDemandClone(GetLaunchConfig(launch_config_name)),
                    Raised(""))
    /\ run_log' = IF pc' = "verify"
                  THEN Append(run_log, <<mig.asg, "create_launch_configuration">>)
                  ELSE run_log
    /\ UNCHANGED << now, settings, groups, spot_requests, dec, orphans, naming,
                    handled, clones_left, last_mode >>

\* Lines 250-282: switch_to_spot up to the creation of the clone.
SwitchToSpot ==
    /\ pc = "switch_to_spot"
    /\ LET launch_config_name == target_asgs[idx].LaunchConfigurationName
       IN  IF ~HasLaunchConfig(launch_config_name)
           THEN Fail("TypeError") /\ UNCHANGED launch_configs
           ELSE \E feed \in RunFeeds :
                LET config == GetLaunchConfig(launch_config_name)
                    od_price == GetLcOnDemandPrice(config, feed)
                IN  IF od_price.kind = "False"
                    THEN \* str + bool, line 257
                         /\ mig' = [ mig EXCEPT !.od_price = od_price,
                                                !.result = "TypeError" ]
                         /\ Abort /\ UNCHANGED launch_configs
                    ELSE IF od_price.kind # "value"
                    THEN /\ mig' = [ mig EXCEPT !.od_price = od_price,
                                                !.result = od_price.kind ]
                         /\ Abort /\ UNCHANGED launch_configs
                    ELSE IF "UserData" \notin DOMAIN RemoveEmpty(config)
                    THEN Fail("KeyError") /\ UNCHANGED launch_configs
                    ELSE CreateLaunchConfiguration(
                             launch_config_name,
                             SpotClone(config, od_price.value), od_price)
    /\ run_log' = IF pc' = "verify"
                  THEN Append(run_log, <<mig.asg, "create_launch_configuration">>)
                  ELSE run_log
    /\ UNCHANGED << now, settings, groups, spot_requests, dec, orphans, naming,
                    handled, clones_left, last_mode >>

\* A plausible slip in lines 230 and 295: the "not" left out.
MonitoringEnabled(config) == config["InstanceMonitoring"].Enabled

\* Lines 230 and 295: not config.get('InstanceMonitoring')['Enabled'].
MonitoringDisabled(config) == ~config["InstanceMonitoring"].Enabled

\* Lines 219-226 and 284-291: the clone is fetched again by its new name;
\* the migration returns when it is not there.
VerifyClone ==
    /\ pc = "verify"
    /\ LET found == HasLaunchConfig(mig.new_lc_name)
           seen == [ mig EXCEPT
                       !.refetch = IF found THEN "found" ELSE "missing" ]
       IN  IF CloneMissing(found)
           THEN /\ mig' = [ seen EXCEPT !.result = "returned" ]
                /\ NextGroup
           ELSE /\ mig' = seen
                /\ pc' = IF MonitoringDisabled(mig.config)
                         THEN "metrics" ELSE "update"
                /\ UNCHANGED << target_asgs, idx, run_end >>
    /\ UNCHANGED << now, settings, provider, dec, orphans, naming, history >>

\* Lines 228-232 and 293-297.
DisableMetrics ==
    /\ pc = "metrics"
    /\ mig' = [ mig EXCEPT !.ops = Append(@, "disable_metrics_collection") ]
    /\ pc' = "update"
    /\ UNCHANGED << now, settings, provider, target_asgs, idx, run_end, dec,
                    orphans, naming, history >>

\* A plausible slip in lines 236-238: the name is derived once more, the
\* marker appended.
RepointTargetAppended == mig.old_lc_name \o <<Star>>

\* Lines 238 and 303: the name handed to update_auto_scaling_group.
RepointTarget == mig.new_lc_name

\* Lines 235-238 and 300-303: the group is pointed at the clone.
UpdateGroup ==
    /\ pc = "update"
    /\ groups' = [ groups EXCEPT
                     ![mig.asg].LaunchConfigurationName = RepointTarget ]
    /\ mig' = [ mig EXCEPT !.ops = Append(@, "update_auto_scaling_group") ]
    /\ pc' = "delete"
    /\ run_log' = Append(run_log, <<mig.asg, "update_auto_scaling_group">>)
    /\ handled' = IF mig.mode = "switch_to_on_demand"
                  THEN handled \cup {<<mig.asg, mig.trigger>>}
                  ELSE handled
    /\ last_mode' = [ last_mode EXCEPT ![mig.asg] = mig.mode ]
    /\ UNCHANGED << now, settings, launch_configs, spot_requests, target_asgs,
                    idx, run_end, dec, orphans, naming, clones_left >>

\* Lines 241-243 and 306-308: the name handed to delete_launch_configuration.
DeleteTarget == mig.old_lc_name

\* Lines 241-243 and 306-308: the old configuration is deleted. The provider
\* refuses to delete a configuration that a group references or that it does
\* not hold.
DeleteOld ==
    /\ pc = "delete"
    /\ IF \/ DeleteTarget \notin DOMAIN launch_configs
          \/ \E g \in Groups : groups[g].LaunchConfigurationName = DeleteTarget
       THEN /\ Fail("ResourceInUse")
            /\ orphans' = orphans \cup {<<mig.asg, mig.old_lc_name>>}
            /\ UNCHANGED launch_configs
       ELSE /\ launch_configs' =
                  [ n \in DOMAIN launch_configs \ {DeleteTarget} |->
                      launch_configs[n] ]
            /\ mig' = [ mig EXCEPT
                          !.ops = Append(@, "delete_launch_configuration"),
                          !.result = "done" ]
            /\ orphans' = orphans
            /\ NextGroup
    /\ run_log' = IF mig'.result = "done"
                  THEN Append(run_log, <<mig.asg, "delete_launch_configuration">>)
                  ELSE run_log
    /\ UNCHANGED << now, settings, groups, spot_requests, dec, naming,
                    handled, clones_left, last_mode >>

\* The provider call of the current step raises ClientError, or the
\* invocation is killed there: nothing catches it, the run ends.
Raise ==
    /\ pc # "idle"
    /\ mig' = IF pc = "manage" THEN mig
              ELSE [ mig EXCEPT !.result = "ClientError" ]
    /\ orphans' = IF pc = "delete"
                  THEN orphans \cup {<<mig.asg, mig.old_lc_name>>}
                  ELSE orphans
    /\ clones_left' =
          IF pc \in {"verify", "metrics", "update"}
                /\ mig.new_lc_name \in DOMAIN launch_configs
          THEN clones_left \cup {<<mig.asg, mig.new_lc_name>>}
          ELSE clones_left
    /\ Abort
    /\ UNCHANGED << now, settings, provider, dec, naming, handled, run_log,
                    last_mode >>

Next ==
    \/ Tick
    \/ StartRun
    \/ ManageGroup
    \/ SwitchToOnDemand
    \/ SwitchToSpot
    \/ VerifyClone
    \/ DisableMetrics
    \/ UpdateGroup
    \/ DeleteOld
    \/ Raise

Spec == Init /\ [][Next]_vars

SpecDecide == InitDecide /\ [][Next]_vars

\* ------------------------------------------- the naming of the clones

RECURSIVE NamesOfLength(_)
NamesOfLength(n) ==
    IF n = 0 THEN {<<>>}
    ELSE {Append(s, c) : s \in NamesOfLength(n - 1), c \in Chars}

\* The launch-configuration names of 1 to MaxNameLen characters.
Names == UNION {NamesOfLength(n) : n \in 1..MaxNameLen}

\* No run: the state of the fleet is not looked at.
NoFleet ==
    /\ now = 0
    /\ lookback = 0 /\ lc_switching_delay = 0
    /\ launch_configs = <<>> /\ groups = <<>> /\ spot_requests = <<>>
    /\ pc = "idle" /\ target_asgs = <<>> /\ idx = 0 /\ run_end = "none"
    /\ dec = NoDecision /\ mig = NoMigration /\ orphans = {}
    /\ handled = {} /\ run_log = <<>> /\ clones_left = {}
    /\ last_mode = [g \in Groups |-> ""]

InitNaming ==
    /\ NoFleet
    /\ NoRepair
    /\ name0 \in Names
    /\ name_now = name0
    /\ renames = 0
    /\ query = <<>> /\ answer = Raised("")

\* One migration of the group, either way: its configuration is replaced by
\* the clone, under the clone's name (lines 198-206 and 262-270).
Rename ==
    /\ renames < MaxRenames
    /\ Len(NewLcName(name_now)) > 0
    /\ name_now' = NewLcName(name_now)
    /\ renames' = renames + 1
    /\ UNCHANGED << now, settings, provider, pc, target_asgs, idx, run_end,
                    dec, mig, orphans, name0, query, answer, history,
                    repair >>

SpecNaming == InitNaming /\ [][Rename]_vars

\* ------------------------------------------- the on-demand price lookup

FeedRegions == {ManagerRegion, "us-east-1", "eu-west-1"}
FeedSizes == InstanceTypes \cup {"c1.medium", "t1.micro"}

InitPricing ==
    /\ NoFleet
    /\ NoRepair
    /\ name0 = <<>> /\ name_now = <<>> /\ renames = 0
    /\ query \in {<<f, r, t>> : f \in FeedNames, r \in FeedRegions,
                                t \in FeedSizes}
    /\ answer = Raised("")

\* The lookup of lines 317-338 on the decoded feed.
Lookup ==
    /\ answer = Raised("")
    /\ answer' = GetOdPriceFromResponse(Feeds[query[1]], query[2], query[3])
    /\ UNCHANGED << now, settings, provider, pc, target_asgs, idx, run_end,
                    dec, mig, orphans, name0, name_now, renames, query,
                    history, repair >>

SpecPricing == InitPricing /\ [][Lookup]_vars

\* --------------------------------------- the repair of the pricing feed

\* Texts are sequences of characters.
Letters == {"a", "b", "c", "e", "f", "g", "h", "i", "k", "l", "n", "r",
            "s", "t", "u", "x"}
Digits == {"1", "2"}
Quotes == {"'", "\""}
Openers == {"(", "[", "{"}
Closers == {")", "]", "}"}

\* s[i..] starts with p.
StartsAt(s, i, p) ==
    /\ i >= 1
    /\ i + Len(p) - 1 <= Len(s)
    /\ \A k \in 1..Len(p) : s[i + k - 1] = p[k]

\* The positions at which p occurs in s.
Occurrences(s, p) == {i \in 1..Len(s) : StartsAt(s, i, p)}

Least(S) == CHOOSE x \in S : \A y \in S : x <= y
Greatest(S) == CHOOSE x \in S : \A y \in S : x >= y

\* Line 348: re.sub of /\*.*\*/\n with DOTALL. The first match starts at the
\* first "/*" and, .* being greedy, ends with the last "*/\n" of the text;
\* nothing after it can match again.
StripInitialComment(s) ==
    LET opens == Occurrences(s, <<"/", "*">>)
        closes == Occurrences(s, <<"*", "/", "\n">>)
    IN  IF opens = {} \/ closes = {} THEN s
        ELSE IF Greatest(closes) < Least(opens) + 2 THEN s
        ELSE SubSeq(s, 1, Least(opens) - 1)
                \o SubSeq(s, Greatest(closes) + 3, Len(s))

CallbackPrefix == <<"c", "a", "l", "l", "b", "a", "c", "k", "(">>

\* Line 350: re.sub of ^callback\( .
StripFront(s) ==
    IF StartsAt(s, 1, CallbackPrefix)
    THEN SubSeq(s, Len(CallbackPrefix) + 1, Len(s))
    ELSE s

RECURSIVE SemicolonsFrom(_, _)
\* The start of the run of ';' that ends at position i (i + 1 when s[i] is
\* not ';').
SemicolonsFrom(s, i) ==
    IF i >= 1 /\ s[i] = ";" THEN SemicolonsFrom(s, i - 1) ELSE i + 1

\* Line 352: re.sub of \);*$ . $ matches at the end of the text and before
\* a newline that ends the text.
StripEnd(s) ==
    LET last == IF Len(s) > 0 /\ s[Len(s)] = "\n" THEN Len(s) - 1 ELSE Len(s)
        semis == SemicolonsFrom(s, last)
    IN  IF semis - 1 >= 1 /\ s[semis - 1] = ")"
        THEN SubSeq(s, 1, semis - 2) \o SubSeq(s, last + 1, Len(s))
        ELSE s

\* A token of tokenize.generate_tokens: its type and its text.
Token(id, val) == [id |-> id, val |-> val]

RECURSIVE RunEnd(_, _, _)
\* The last position of the run of characters of set S that starts at i.
RunEnd(s, i, S) ==
    IF i + 1 <= Len(s) /\ s[i + 1] \in S THEN RunEnd(s, i + 1, S) ELSE i

RECURSIVE QuoteEnd(_, _, _)
\* The position of the quote that closes the string opened with q before
\* position i; 0 when the line ends first.
QuoteEnd(s, i, q) ==
    IF i > Len(s) \/ s[i] = "\n" THEN 0
    ELSE IF s[i] = q THEN i
    ELSE QuoteEnd(s, i + 1, q)

RECURSIVE SkipBlanks(_, _)
\* The first position from i on that holds no blank.
SkipBlanks(s, i) ==
    IF i <= Len(s) /\ s[i] = " " THEN SkipBlanks(s, i + 1) ELSE i

\* What the generator is left with after a token: the token, the position
\* after it, the bracket level, and whether the logical line has a token.
Scanned(tok, pos, parenlev, in_line) ==
    [tok |-> tok, pos |-> pos, parenlev |-> parenlev, in_line |-> in_line]

\* The next token of tokenize.generate_tokens, from position i, which holds
\* no blank. Operators are matched longest first, so "//" and "**" are one
\* token each where "/*" and "*/" are two; a newline is NL inside brackets
\* and on an empty line, NEWLINE otherwise; a quote that is not closed on
\* its line is an ERRORTOKEN.
NextToken(s, i, parenlev, in_line) ==
    LET c == s[i]
    IN  CASE c = "\n" ->
               Scanned(Token(IF parenlev > 0 \/ ~in_line
                             THEN "NL" ELSE "NEWLINE", <<c>>),
                       i + 1, parenlev, parenlev > 0 /\ in_line)
          [] c \in Letters ->
               LET e == RunEnd(s, i, Letters \cup Digits)
               IN  Scanned(Token("NAME", SubSeq(s, i, e)), e + 1, parenlev,
                           TRUE)
          [] c \in Digits ->
               LET e == RunEnd(s, i, Digits)
               IN  Scanned(Token("NUMBER", SubSeq(s, i, e)), e + 1, parenlev,
                           TRUE)
          [] c \in Quotes ->
               LET e == QuoteEnd(s, i + 1, c)
               IN  IF e = 0
                   THEN Scanned(Token("ERRORTOKEN", <<c>>), i + 1, parenlev,
                                TRUE)
                   ELSE Scanned(Token("STRING", SubSeq(s, i, e)), e + 1,
                                parenlev, TRUE)
          [] c \in {"/", "*"} /\ StartsAt(s, i, <<c, c>>) ->
               Scanned(Token("OP", <<c, c>>), i + 2, parenlev, TRUE)
          [] OTHER ->
               Scanned(Token("OP", <<c>>), i + 1,
                       IF c \in Openers THEN parenlev + 1
                       ELSE IF c \in Closers THEN parenlev - 1
                       ELSE parenlev,
                       TRUE)

\* The tokens the generator ends with: a NEWLINE when the text does not end
\* with one, and ENDMARKER.
EndTokens(s) ==
    IF Len(s) > 0 /\ s[Len(s)] # "\n"
    THEN <<Token("NEWLINE", <<>>), Token("ENDMARKER", <<>>)>>
    ELSE <<Token("ENDMARKER", <<>>)>>

\* Line 387: the names that stay as they are.
JsonWords ==
    { <<"t", "r", "u", "e">>, <<"f", "a", "l", "s", "e">>,
      <<"n", "u", "l", "l">>,
      <<"-", "I", "n", "f", "i", "n", "i", "t", "y">>,
      <<"I", "n", "f", "i", "n", "i", "t", "y">>, <<"N", "a", "N">> }

RECURSIVE EscapeQuotes(_)
\* str.replace('"', '\\"'), line 394.
EscapeQuotes(s) ==
    IF Len(s) = 0 THEN <<>>
    ELSE (IF Head(s) = "\"" THEN <<"\\", "\"">> ELSE <<Head(s)>>)
         \o EscapeQuotes(Tail(s))

\* u'"%s"' % tokval, lines 389 and 394.
DoubleQuoted(s) == <<"\"">> \o s \o <<"\"">>

\* The locals of fixup_js_literal_with_comments, lines 364-369, with the
\* state of the token generator of line 365 and the exception raised.
FixupStart ==
    [ result |-> <<>>, sline_comment |-> FALSE, mline_comment |-> FALSE,
      last_token |-> <<>>, pos |-> 1, parenlev |-> 0, in_line |-> FALSE,
      error |-> "" ]

DropLast(s) == SubSeq(s, 1, Len(s) - 1)

\* Lines 412-413.
Emit(st, tok) ==
    [ st EXCEPT !.result = Append(@, tok), !.last_token = tok.val ]

\* Lines 372-413: one turn of the loop over the tokens.
FixupToken(st, tok) ==
    IF st.sline_comment
    THEN IF tok.id \in {"NEWLINE", "NL"}
         THEN [ st EXCEPT !.sline_comment = FALSE ]
         ELSE st
    ELSE IF st.mline_comment
    THEN IF st.last_token = <<"*">> /\ tok.val = <<"/">>
         THEN [ st EXCEPT !.mline_comment = FALSE, !.last_token = tok.val ]
         ELSE [ st EXCEPT !.last_token = tok.val ]
    ELSE IF tok.id = "NAME"
    THEN IF tok.val \notin JsonWords
         THEN Emit(st, Token("STRING", DoubleQuoted(tok.val)))
         ELSE Emit(st, tok)
    ELSE IF tok.id = "STRING"
    THEN IF Head(tok.val) = "'"
         THEN Emit(st, Token("STRING",
                  DoubleQuoted(EscapeQuotes(
                      SubSeq(tok.val, 2, Len(tok.val) - 1)))))
         ELSE Emit(st, tok)
    ELSE IF tok.id = "OP" /\ tok.val \in {<<"}">>, <<"]">>}
    THEN IF Len(st.result) > 0 /\ st.result[Len(st.result)].val = <<",">>
         THEN Emit([ st EXCEPT !.result = DropLast(@) ], tok)
         ELSE Emit(st, tok)
    ELSE IF tok.val = <<"/", "/">>
    THEN [ st EXCEPT !.sline_comment = TRUE ]
    ELSE IF st.last_token = <<"/">> /\ tok.val = <<"*">>
    THEN IF Len(st.result) = 0
         THEN [ st EXCEPT !.error = "IndexError" ]
         ELSE [ st EXCEPT !.result = DropLast(@), !.mline_comment = TRUE ]
    ELSE Emit(st, tok)

RECURSIVE FixupLoop(_, _, _)
\* Line 371: the turns of the loop for the tokens the generator ends with.
FixupLoop(st, toks, i) ==
    IF i > Len(toks) \/ st.error # "" THEN st
    ELSE FixupLoop(FixupToken(st, toks[i]), toks, i + 1)

\* tokenize.untokenize of (type, text) pairs, line 415: the texts of the
\* tokens in order with blanks between them; the tokens that are only
\* layout (NL, NEWLINE, ENDMARKER) give white space. The text is given
\* without its white space, as the sequence of the texts of its tokens.
Untokenize(result) ==
    LET keep == SelectSeq(result,
                    LAMBDA t : t.id \notin {"NL", "NEWLINE", "ENDMARKER"})
    IN  [i \in 1..Len(keep) |-> keep[i].val]

\* What comes before callback( : nothing, or a comment on a line of its own.
Headers ==
    { <<>>,
      <<"/", "*", " ", "h", " ", "*", "/", "\n">> }

\* What comes between callback( and the literal.
LeadComments ==
    { <<>>,
      <<"/", "*", " ", "c", " ", "*", "/">>,
      <<"/", "*", "*", " ", "c", " ", "*", "/">> }

\* What comes after the comma of the first member.
Separators ==
    { <<" ">>,
      <<"\n">>,
      <<" ", "/", "*", " ", "c", " ", "*", "/", "\n">>,
      <<" ", "/", "/", " ", "c", "\n">> }

\* What comes between the last element and the closing bracket.
ArrayEnds ==
    { <<>>,
      <<",">>,
      <<",", "\n">> }

\* What comes between the last member and the closing brace.
ObjectEnds ==
    { <<>>,
      <<",">>,
      <<",", "\n">>,
      <<",", " ", "/", "*", " ", "c", " ", "*", "/">>,
      <<",", " ", "/", "/", " ", "c", "\n">> }

\* What comes between the literal and the closing of the call.
Trailers ==
    { <<>>,
      <<" ", "/", "/", " ", "t", "r", "a", "i", "l", "i", "n", "g", "\n">>,
      <<"\n">> }

\* The JavaScript literal {a:1, 'b':'x', c:[1,2]} in a call of callback,
\* with comments, line breaks and trailing commas at these places.
JsRequest(h, l, m, a, b, t) ==
    h \o CallbackPrefix \o l \o <<"{", "a", ":", "1", ",">> \o m
      \o <<"'", "b", "'", ":", "'", "x", "'", ",", " ", "c", ":", "[", "1", ",", "2">> \o a \o <<"]">> \o b \o <<"}">>
      \o t \o <<")", ";">>

\* The body of the example:
\* callback(/* c */{a:1, 'b':'x', c:[1,2,],} // trailing\n);
ExampleRequest ==
    JsRequest(<<>>, <<"/", "*", " ", "c", " ", "*", "/">>, <<" ">>, <<",">>, <<",">>,
              <<" ", "/", "/", " ", "t", "r", "a", "i", "l", "i", "n", "g", "\n">>)

InitRepair ==
    /\ NoFleet
    /\ name0 = <<>> /\ name_now = <<>> /\ renames = 0
    /\ query = <<>> /\ answer = Raised("")
    /\ \E h \in Headers, l \in LeadComments, m \in Separators,
          a \in ArrayEnds, b \in ObjectEnds, t \in Trailers :
          request = JsRequest(h, l, m, a, b, t)
    /\ text = request
    /\ stage = "read"
    /\ fixup = <<>>
    /\ decoded = Raised("")

\* A step of load_data leaves the fleet and the other lookups alone.
LoadStep ==
    UNCHANGED << now, settings, provider, pc, target_asgs, idx, run_end,
                 dec, mig, orphans, name0, name_now, renames, query,
                 answer, history, request >>

\* Line 348.
LoadStripComment ==
    /\ stage = "read"
    /\ stage' = "no_comment"
    /\ text' = StripInitialComment(text)
    /\ UNCHANGED << fixup, decoded >>
    /\ LoadStep

\* Line 350.
LoadStripFront ==
    /\ stage = "no_comment"
    /\ stage' = "no_front"
    /\ text' = StripFront(text)
    /\ UNCHANGED << fixup, decoded >>
    /\ LoadStep

\* Line 352.
LoadStripEnd ==
    /\ stage = "no_front"
    /\ stage' = "no_end"
    /\ text' = StripEnd(text)
    /\ UNCHANGED << fixup, decoded >>
    /\ LoadStep

\* Line 354 and lines 364-369: fixup_js_literal_with_comments is called.
LoadFixup ==
    /\ stage = "no_end"
    /\ stage' = "fixup"
    /\ fixup' = FixupStart
    /\ UNCHANGED << text, decoded >>
    /\ LoadStep

\* Lines 371-413: one turn of the loop, on the next token of the text. An
\* exception of the turn ends the function.
FixupNext ==
    /\ stage = "fixup"
    /\ SkipBlanks(text, fixup.pos) <= Len(text)
    /\ LET scan == NextToken(text, SkipBlanks(text, fixup.pos),
                             fixup.parenlev, fixup.in_line)
           st == FixupToken([ fixup EXCEPT !.pos = scan.pos,
                                           !.parenlev = scan.parenlev,
                                           !.in_line = scan.in_line ],
                            scan.tok)
       IN  /\ fixup' = st
           /\ IF st.error # ""
              THEN decoded' = Raised(st.error) /\ stage' = "fixed"
              ELSE UNCHANGED << decoded, stage >>
    /\ UNCHANGED text
    /\ LoadStep

\* The end of the text: the generator raises TokenError inside a bracket or
\* after more closers than openers; otherwise the loop takes its last
\* turns and line 415 returns the text.
FixupReturn ==
    /\ stage = "fixup"
    /\ SkipBlanks(text, fixup.pos) > Len(text)
    /\ stage' = "fixed"
    /\ IF fixup.parenlev # 0
       THEN /\ decoded' = Raised("TokenError")
            /\ fixup' = fixup
       ELSE LET st == FixupLoop(fixup, EndTokens(text), 1)
            IN  /\ fixup' = st
                /\ decoded' = IF st.error # "" THEN Raised(st.error)
                              ELSE Returned(Untokenize(st.result))
    /\ UNCHANGED text
    /\ LoadStep

NextRepair ==
    \/ LoadStripComment
    \/ LoadStripFront
    \/ LoadStripEnd
    \/ LoadFixup
    \/ FixupNext
    \/ FixupReturn

SpecRepair == InitRepair /\ [][NextRepair]_vars

\* ------------------------------------------------------------ the claims

InMigration == pc \in {"verify", "metrics", "update", "delete"}

\* C1: whenever the re-fetch of the clone by its new name finds no
\* configuration, the migration stops there: creation is the only provider
\* operation it issued (no update_auto_scaling_group, no
\* delete_launch_configuration), the group still references the
\* configuration it referenced when the migration started, and that
\* configuration still exists.
C1_MissingCloneStopsMigration ==
    mig.refetch = "missing" =>
        /\ ~InMigration
        /\ mig.ops = <<"create_launch_configuration">>
        /\ groups[mig.asg].LaunchConfigurationName = mig.old_lc_name
        /\ mig.old_lc_name \in DOMAIN launch_configs

\* C1 witness: a migration whose re-fetch found nothing has returned.
C1_Witness ==
    /\ mig.refetch = "missing"
    /\ mig.result = "returned"
    /\ mig.new_lc_name \notin DOMAIN launch_configs

\* C2: in every reachable state, a migration interrupted between any two of
\* its steps included, every group references a launch configuration that
\* the provider holds.
C2_GroupReferencesExistingConfig ==
    \A g \in Groups :
        groups[g].LaunchConfigurationName \in DOMAIN launch_configs

\* C2 witness: a run was cut off by a provider error after the group was
\* repointed and before the old configuration was deleted.
C2_Witness ==
    /\ run_end = "crashed"
    /\ mig.result = "ClientError"
    /\ Len(mig.ops) > 0
    /\ mig.ops[Len(mig.ops)] = "update_auto_scaling_group"
    /\ groups[mig.asg].LaunchConfigurationName = mig.new_lc_name

\* manage_group has decided for an ON_DEMAND group with both prices at hand.
DecidedOnDemand ==
    /\ dec.asg # ""
    /\ ~dec.is_spot
    /\ dec.od_price.kind = "value"
    /\ dec.action \in {"none", "switch_to_spot"}

\* C3: for a group that is ON_DEMAND and whose minimum spot price is greater
\* than or equal to the on-demand price, manage_group takes no action,
\* whatever the age of the configuration and the switching delay.
C3_NoActionWhenSpotNotCheaper ==
    (DecidedOnDemand /\ dec.spot_zone_min >= dec.od_price.value)
        => dec.action = "none"

\* C4: for a group that is ON_DEMAND, whose minimum spot price is below the
\* on-demand price and whose configuration is older than
\* lc_switching_delay, manage_group decides to switch to spot; and the
\* clone that switch_to_spot submits, and the configuration the provider
\* then holds under the clone's name, bid exactly the on-demand price the
\* lookup gave.
C4_SwitchToSpotBidsOnDemandPrice ==
    /\ (/\ DecidedOnDemand
        /\ dec.spot_zone_min < dec.od_price.value
        /\ dec.age > lc_switching_delay)
          => dec.action = "switch_to_spot"
    /\ (mig.mode = "switch_to_spot" /\ mig.ops # <<>>) =>
          /\ mig.od_price.kind = "value"
          /\ mig.od_price =
                GetOdPriceFromResponse(Feeds["ok"], ManagerRegion,
                                       mig.config["InstanceType"])
          /\ "SpotPrice" \in DOMAIN mig.config
          /\ mig.config["SpotPrice"] = mig.od_price.value
          /\ (mig.new_lc_name \in DOMAIN launch_configs =>
                /\ "SpotPrice" \in DOMAIN launch_configs[mig.new_lc_name]
                /\ launch_configs[mig.new_lc_name]["SpotPrice"]
                      = mig.od_price.value)

\* C4 witness: such a decision was taken and the migration it started is
\* done, the group on a configuration that bids the on-demand price.
C4_Witness ==
    /\ DecidedOnDemand
    /\ dec.spot_zone_min < dec.od_price.value
    /\ dec.age > lc_switching_delay
    /\ mig.mode = "switch_to_spot"
    /\ mig.result = "done"
    /\ groups[mig.asg].LaunchConfigurationName = mig.new_lc_name
    /\ launch_configs[mig.new_lc_name]["SpotPrice"] = dec.od_price.value

\* C5: for a group that is ON_DEMAND and whose minimum spot price is below
\* the on-demand price, manage_group takes no action while the age of the
\* configuration is at most lc_switching_delay; so whenever a migration to
\* spot is under way, more than lc_switching_delay has passed since the
\* creation of the on-demand configuration the group was on.
C5_NoSwitchToSpotInCooldown ==
    /\ (/\ DecidedOnDemand
        /\ dec.spot_zone_min < dec.od_price.value
        /\ dec.age <= lc_switching_delay)
          => dec.action = "none"
    /\ (pc = "switch_to_spot" \/ (InMigration /\ mig.mode = "switch_to_spot"))
          => LET old == target_asgs[idx].LaunchConfigurationName
             IN  old \in DOMAIN launch_configs =>
                    now - launch_configs[old]["CreatedTime"]
                        > lc_switching_delay

\* C5 witness: spot is cheaper, the configuration is exactly as old as the
\* delay, and nothing is done.
C5_Witness ==
    /\ DecidedOnDemand
    /\ dec.spot_zone_min < dec.od_price.value
    /\ dec.age = lc_switching_delay
    /\ dec.action = "none"

\* The requests of a group with a denial inside the window, said without
\* the loops of check_spot_requests.
DenialInWindow(asg_name) ==
    \E i \in 1..Len(spot_requests) :
        /\ \E j \in 1..Len(spot_requests[i].Tags) :
              spot_requests[i].Tags[j] = Tag("launched-for-asg", asg_name)
        /\ spot_requests[i].Status.Code \in
              { "capacity-not-available", "capacity-oversubscribed",
                "instance-terminated-by-price",
                "instance-terminated-capacity-oversubscribed",
                "instance-terminated-no-capacity", "price-too-low" }
        /\ now - spot_requests[i].Status.UpdateTime < lookback

\* C6: for a group that is SPOT, manage_group switches it to on-demand if
\* and only if some request tagged launched-for-asg with the group's name
\* has a status code of the denial set and a status update strictly inside
\* the lookback window; otherwise it takes no action.
C6_SwitchToOnDemandIffRecentDenial ==
    (dec.asg # "" /\ dec.is_spot) =>
        /\ dec.action \in {"switch_to_on_demand", "none"}
        /\ dec.action = "switch_to_on_demand" <=> DenialInWindow(dec.asg)

\* C6 witness: a SPOT group is switched to on-demand on a denial that is
\* younger than lookback, listed after a request of another group.
C6_Witness ==
    /\ dec.asg # "" /\ dec.is_spot
    /\ dec.action = "switch_to_on_demand"
    /\ pc = "switch_to_on_demand"
    /\ Len(spot_requests) = 2
    /\ spot_requests[1].Tags # <<Tag("launched-for-asg", dec.asg)>>
    /\ spot_requests[2].Tags = <<Tag("launched-for-asg", dec.asg)>>
    /\ spot_requests[2].Status.Code = "price-too-low"
    /\ now > 0
    /\ now - spot_requests[2].Status.UpdateTime < lookback

\* A SPOT group is left alone on a denial that is exactly lookback old.
C6_EdgeOfWindow ==
    /\ dec.asg # "" /\ dec.is_spot
    /\ dec.action = "none"
    /\ \E i \in 1..Len(spot_requests) :
          /\ spot_requests[i].Tags = <<Tag("launched-for-asg", dec.asg)>>
          /\ spot_requests[i].Status.Code = "price-too-low"
          /\ now - spot_requests[i].Status.UpdateTime = lookback

\* The toggle of the trailing marker: one '*' appended to a name that does
\* not end in '*', one trailing '*' removed from a name that does.
Toggled(n) ==
    IF Len(n) > 0 /\ n[Len(n)] = Star
    THEN SubSeq(n, 1, Len(n) - 1)
    ELSE n \o <<Star>>

EndsInTwoStars(n) ==
    Len(n) >= 2 /\ n[Len(n)] = Star /\ n[Len(n) - 1] = Star

\* C7: the clone name derived by a migration is the name with the marker
\* toggled; two successive migrations give back the name the group started
\* with (for a name that does not end in '**'), and no derived name ends in
\* '**'.
C7_CloneNameTogglesMarker ==
    /\ renames = 1 => name_now = Toggled(name0)
    /\ (renames = 2 /\ ~EndsInTwoStars(name0)) => name_now = name0
    /\ renames >= 1 => ~EndsInTwoStars(name_now)

\* C8: after the deletion of a group's old configuration failed and left
\* it behind, referenced by no group, the clone name derived in the next
\* migration of that group is not the name of the configuration left
\* behind, so that this migration can create its clone.
C8_OrphanDoesNotCollide ==
    \A o \in orphans :
        (/\ pc \in {"switch_to_on_demand", "switch_to_spot"}
         /\ target_asgs[idx].AutoScalingGroupName = o[1]
         /\ \A g \in Groups : groups[g].LaunchConfigurationName # o[2])
            => ~(/\ NewLcName(target_asgs[idx].LaunchConfigurationName) = o[2]
                 /\ o[2] \in DOMAIN launch_configs)

\* C9: a failure while one group is managed (a provider error, a missing
\* configuration, unusable pricing data) ends the cycle of that group only:
\* when the run has ended, manage_group has been called for every group of
\* the list.
C9_FailureEndsOnlyThatGroup ==
    (pc = "idle" /\ run_end \in {"done", "crashed"}
        /\ dec.action # "ValueError")
        => idx >= Len(target_asgs)

RegionAbsent(feed, region) ==
    \A i \in 1..Len(Feeds[feed]) : Feeds[feed][i].region # region

TypeAbsent(feed, region, instance_type) ==
    \A i \in 1..Len(Feeds[feed]) :
        Feeds[feed][i].region = region =>
            \A j \in 1..Len(Feeds[feed][i].instanceTypes) :
                \A k \in 1..Len(Feeds[feed][i].instanceTypes[j].sizes) :
                    Feeds[feed][i].instanceTypes[j].sizes[k].size
                        # instance_type

\* C10: when the region or the instance type is absent from the decoded
\* feed, the lookup gives its caller the price-not-found outcome (False):
\* it does not raise, and it gives no price.
C10_AbsentPriceIsReported ==
    (/\ answer # Raised("")
     /\ \/ RegionAbsent(query[1], query[2])
        \/ TypeAbsent(query[1], query[2], query[3]))
        => answer = ReturnedFalse

ZoneSet == {Zones[i] : i \in 1..Len(Zones)}

\* The quotes of the zones whose call did not fail, in the order of the
\* zones, said without the loop of get_zone_spot_prices.
Remaining(quote) ==
    LET ok == {i \in 1..Len(Zones) : quote[Zones[i]] # ZoneError}
        rank(i) == Cardinality({j \in ok : j <= i})
    IN  [n \in 1..Cardinality(ok) |->
            quote[Zones[CHOOSE i \in ok : rank(i) = n]]]

\* C11: for every subset of the group's zones whose spot price call fails,
\* get_zone_spot_prices returns the prices of exactly the other zones, and
\* the cycle of an ON_DEMAND group ends with a decision: taking the minimum
\* of the returned list never aborts it, all zones failing included.
C11_ZoneErrorsEndInDecision ==
    /\ \A quote \in [ZoneSet -> SpotQuotes] :
          GetZoneSpotPrices(Zones, 1, quote) = Remaining(quote)
    /\ (dec.asg # "" /\ ~dec.is_spot) => dec.action # "ValueError"

\* C12: one denial record causes at most one migration to on-demand: a
\* migration to on-demand that repoints its group was not decided on a
\* request that had already caused a repoint of that group to on-demand,
\* whatever lookback and lc_switching_delay are.
C12_OneMigrationPerDenial ==
    (/\ mig.mode = "switch_to_on_demand"
     /\ \E i \in 1..Len(mig.ops) : mig.ops[i] = "update_auto_scaling_group")
        => ~mig.again

\* How often the run has issued this provider operation for this group.
Issued(g, op) ==
    Cardinality({i \in 1..Len(run_log) : run_log[i] = <<g, op>>})

\* The decision table of manage_group over what the cycle read.
DecisionTable(is_spot, spot_failure, spot_not_greater, cooled) ==
    IF is_spot
    THEN IF spot_failure THEN "switch_to_on_demand" ELSE "none"
    ELSE IF spot_not_greater /\ cooled THEN "switch_to_spot" ELSE "none"

\* C13: within one run every managed group is the target of at most one
\* migration: at most one create_launch_configuration, one
\* update_auto_scaling_group and one delete_launch_configuration are issued
\* for it; and the decision taken for a group is the entry of the decision
\* table for what the cycle read from the provider: the current mode,
\* whether a denial was found, how the minimum spot price compares with the
\* on-demand price, and whether the cooldown has elapsed.
C13_OneMigrationPerGroupPerRun ==
    /\ \A g \in Groups :
          \A op \in { "create_launch_configuration",
                      "update_auto_scaling_group",
                      "delete_launch_configuration" } : Issued(g, op) <= 1
    /\ dec.action \in {"none", "switch_to_on_demand", "switch_to_spot"} =>
          dec.action =
              DecisionTable(dec.is_spot, dec.spot_failure,
                            dec.spot_zone_min <= dec.od_price.value,
                            dec.age > lc_switching_delay)

\* C13 witness: one run has migrated both groups of the fleet, each once,
\* and has ended.
C13_Witness ==
    /\ run_end = "done"
    /\ \A g \in Groups :
          /\ Issued(g, "create_launch_configuration") = 1
          /\ Issued(g, "update_auto_scaling_group") = 1
          /\ Issued(g, "delete_launch_configuration") = 1

\* C14: manage_group classifies a group as SPOT if and only if the launch
\* configuration the group references has the key SpotPrice, whatever the
\* name of the configuration (with or without the trailing '*') and the
\* tags of the group; without that key the group is ON_DEMAND.
C14_ClassificationIsStructural ==
    [][ (pc = "manage" /\ dec' # dec /\ dec'.action # "TypeError") =>
            (dec'.is_spot <=>
                "SpotPrice" \in DOMAIN
                    launch_configs[groups[dec'.asg].LaunchConfigurationName])
      ]_vars

\* C14 witness: a group on a configuration with a SpotPrice and a name
\* without the marker was classified SPOT, beside a group on a configuration
\* without SpotPrice whose name ends with the marker.
C14_Witness ==
    /\ pc = "switch_to_on_demand"
    /\ dec.is_spot
    /\ dec.asg = target_asgs[idx].AutoScalingGroupName
    /\ ~EndsWithStar(target_asgs[idx].LaunchConfigurationName)
    /\ "SpotPrice" \in DOMAIN
          launch_configs[target_asgs[idx].LaunchConfigurationName]
    /\ \E g \in Groups :
          /\ EndsWithStar(groups[g].LaunchConfigurationName)
          /\ "SpotPrice" \notin DOMAIN
                launch_configs[groups[g].LaunchConfigurationName]

\* The strict JSON text {"a":1,"b":"x","c":[1,2]}, token by token.
StrictJson ==
    << <<"{">>, <<"\"", "a", "\"">>, <<":">>, <<"1">>,
       <<",">>, <<"\"", "b", "\"">>, <<":">>, <<"\"", "x", "\"">>,
       <<",">>, <<"\"", "c", "\"">>, <<":">>,
       <<"[">>, <<"1">>, <<",">>, <<"2">>, <<"]">>, <<"}">> >>

\* C15: load_data's trimming followed by fixup_js_literal_with_comments
\* turns a callback-wrapped JavaScript literal with block and line comments,
\* unquoted keys, single-quoted strings and trailing commas into text that
\* decodes as strict JSON with the same keys and values: for the literal
\* {a:1, 'b':'x', c:[1,2]} the text returned is, white space apart,
\* {"a":1,"b":"x","c":[1,2]}.
C15_RepairYieldsStrictJson ==
    stage = "fixed" =>
        /\ decoded.kind = "value"
        /\ decoded.value = StrictJson

\* The example of C15 is repaired as it should be.
C15_ExampleIsRepaired ==
    /\ request = ExampleRequest
    /\ stage = "fixed"
    /\ decoded.kind = "value"
    /\ decoded.value = StrictJson

\* The provider operations of a whole migration, in the order of the code.
FullMigration(metrics) ==
    IF metrics
    THEN << "create_launch_configuration", "disable_metrics_collection",
            "update_auto_scaling_group", "delete_launch_configuration" >>
    ELSE << "create_launch_configuration",
            "update_auto_scaling_group", "delete_launch_configuration" >>

\* C16: the provider operations a migration has issued are always a
\* beginning of: create the clone, (disable metrics collection,) repoint the
\* group, delete the old configuration, with disable_metrics_collection in
\* it if and only if InstanceMonitoring of the clone is disabled; and no
\* operation follows the creation before the re-fetch has found the clone.
C16_OperationsInOrder ==
    mig.ops # <<>> =>
        LET full == FullMigration(~mig.config["InstanceMonitoring"].Enabled)
        IN  /\ Len(mig.ops) <= Len(full)
            /\ mig.ops = SubSeq(full, 1, Len(mig.ops))
            /\ Len(mig.ops) > 1 => mig.refetch = "found"
            /\ pc \in {"metrics", "update", "delete"} => mig.refetch = "found"

\* C16 witness: a migration of a group whose clone has monitoring disabled
\* is done, after all four operations.
C16_Witness ==
    /\ mig.result = "done"
    /\ ~mig.config["InstanceMonitoring"].Enabled
    /\ Len(mig.ops) = 4
    /\ mig.ops[2] = "disable_metrics_collection"

\* A migration of a group whose clone has monitoring enabled is done, after
\* three operations.
C16_WithoutMetrics ==
    /\ mig.result = "done"
    /\ mig.config["InstanceMonitoring"].Enabled
    /\ Len(mig.ops) = 3

\* The size entries of this instance type in the families of this region
\* of the feed, as (family, position in the family).
SizeEntries(feed, region, instance_type) ==
    { <<i, j, k>> \in
        UNION { UNION { { <<i, j, k>> :
                            k \in 1..Len(Feeds[feed][i].instanceTypes[j].sizes) } :
                        j \in 1..Len(Feeds[feed][i].instanceTypes) } :
                i \in 1..Len(Feeds[feed]) } :
        /\ Feeds[feed][i].region = region
        /\ Feeds[feed][i].instanceTypes[j].sizes[k].size = instance_type }

\* C17: for every feed, region and instance type such that the region is in
\* the feed and the instance type is a size entry of some family of that
\* region, the first family or a later one, the lookup returns the USD
\* price of that size entry.
C17_PriceFoundInAnyFamily ==
    (/\ answer # Raised("")
     /\ SizeEntries(query[1], query[2], query[3]) # {})
        => \E e \in SizeEntries(query[1], query[2], query[3]) :
              LET usd == Feeds[query[1]][e[1]].instanceTypes[e[2]].sizes[e[3]].USD
              IN  usd # EmptyPrice => answer = Returned(usd)

\* C18: a migration is safely re-runnable: when a migration of a group was
\* interrupted after its clone was created and before the group was
\* repointed, a later migration of that group that derives the same clone
\* name is not refused at the creation of its clone, so that it can run to
\* its end.
C18_InterruptedMigrationReruns ==
    (/\ mig.asg # ""
     /\ <<mig.asg, mig.new_lc_name>> \in clones_left
     /\ mig.ops = <<>>)
        => mig.result # "AlreadyExists"

\* The keys in which a clone is to differ from its source.
CloneChanges ==
    { "LaunchConfigurationName", "SpotPrice", "LaunchConfigurationARN",
      "CreatedTime", "UserData" }

\* C19: the clone a migration submits differs from its source only in the
\* name, the bid, the fields the provider assigns (ARN, creation time) and
\* the decoding of the startup payload: every other field of the source,
\* whatever its value, is in the clone with the same value.
C19_CloneKeepsOtherFields ==
    (InMigration /\ mig.old_lc_name \in DOMAIN launch_configs) =>
        LET source == launch_configs[mig.old_lc_name]
        IN  /\ \A k \in DOMAIN source \ CloneChanges :
                  /\ k \in DOMAIN mig.config
                  /\ mig.config[k] = source[k]
            /\ DOMAIN mig.config \subseteq DOMAIN source \cup {"SpotPrice"}
            /\ "LaunchConfigurationARN" \notin DOMAIN mig.config
            /\ "CreatedTime" \notin DOMAIN mig.config

\* No step changes a launch configuration that the provider holds before
\* and after it.
C19_SourceIsNeverModified ==
    [][ \A n \in DOMAIN launch_configs \cap DOMAIN launch_configs' :
            launch_configs'[n] = launch_configs[n] ]_vars

Repointed ==
    \E i \in 1..Len(mig.ops) : mig.ops[i] = "update_auto_scaling_group"

\* C20: after a migration has repointed its group, the launch configuration
\* the group references classifies as the target mode of the migration: it
\* has a SpotPrice after switch_to_spot and none after switch_to_on_demand;
\* and the migration that repointed the group before it, if any, was to the
\* other mode.
C20_RepointedGroupIsInTargetMode ==
    Repointed =>
        /\ groups[mig.asg].LaunchConfigurationName \in DOMAIN launch_configs
        /\ ("SpotPrice" \in DOMAIN
                launch_configs[groups[mig.asg].LaunchConfigurationName])
              <=> (mig.mode = "switch_to_spot")
        /\ mig.prev_mode # mig.mode

\* C20 witness: a group that was migrated to on-demand has now been
\* repointed by a migration to spot, to a configuration with a SpotPrice.
C20_Witness ==
    /\ Repointed
    /\ mig.prev_mode = "switch_to_on_demand"
    /\ mig.mode = "switch_to_spot"
    /\ "SpotPrice" \in DOMAIN
          launch_configs[groups[mig.asg].LaunchConfigurationName]

====
